---- MODULE Spec2Model ----
(***************************************************************************)
(* A model of the edge-segmentation program of src/main.cpp: the           *)
(* neighbourhood operators (sobel_operator, blur_operator,                 *)
(* dialate_operator), the fork-join convolution engine apply_kernel with   *)
(* its worker threads, and the pass sequence of process_image / dialate.   *)
(*                                                                         *)
(* A float sample is the pair <<m, e>> standing for m * 2^e, where m = 0   *)
(* (and e = 0) or 2^23 <= |m| < 2^24: the IEEE-754 binary32 values the     *)
(* program handles (no subnormal, infinity or NaN arises on the fields     *)
(* modelled here).  Sums and quotients are rounded to nearest, ties to     *)
(* even, as the hardware does.                                             *)
(***************************************************************************)
EXTENDS Integers, Naturals, Sequences, FiniteSets, TLC

\* ------------------------------------------------------------------------
\* Program constants (src/main.cpp:21-27)
DENOISE_COUNT == 8
DENOISE_RAD == 9
BLUR_COUNT == 20
BLUR_RAD == 3
CERTAINTY == 5

\* SOBEL_X and SOBEL_Y (src/main.cpp:29-30), indexed from 0 as in the code.
SOBEL_X(r, c) == <<<<-1, 0, 1>>, <<-2, 0, 2>>, <<-1, 0, 1>>>>[r + 1][c + 1]
SOBEL_Y(r, c) == <<<<1, 2, 1>>, <<0, 0, 0>>, <<-1, -2, -1>>>>[r + 1][c + 1]

\* ------------------------------------------------------------------------
\* binary32 arithmetic
Max(a, b) == IF a >= b THEN a ELSE b
Min(a, b) == IF a <= b THEN a ELSE b
Abs(n) == IF n < 0 THEN -n ELSE n
Sign(n) == IF n < 0 THEN -1 ELSE 1

\* Number of significant bits of a natural number below 2^31 (0 for 0).
BitLen(a) == IF a = 0 THEN 0 ELSE CHOOSE L \in 1 .. 31 : a \div 2^(L - 1) = 1

FZero == <<0, 0>>

\* F applied to the values of its arguments, each evaluated once, whatever
\* the evaluation context (a device of evaluation only: Once1(F, e) = F(e)).
Once1(F(_), e) == CHOOSE r \in {F(v) : v \in {e}} : TRUE
Once2(F(_, _), e1, e2) ==
  CHOOSE r \in {F(u, v) : u \in {e1}, v \in {e2}} : TRUE
Once3(F(_, _, _), e1, e2, e3) ==
  CHOOSE r \in {F(u, v, w) : u \in {e1}, v \in {e2}, w \in {e3}} : TRUE

\* The float nearest to s * 2^e (ties to even), s an integer below 2^31.
RoundNormOf(s, e) ==
  LET a == Abs(s)
      L == BitLen(a)
  IN IF a = 0 THEN FZero
     ELSE IF L <= 24 THEN <<s * 2^(24 - L), e - (24 - L)>>
     ELSE LET k == L - 24
              q == a \div 2^k
              r == a % 2^k
              half == 2^(k - 1)
              up == r > half \/ (r = half /\ q % 2 = 1)
              q1 == IF up THEN q + 1 ELSE q
          IN IF q1 = 2^24 THEN <<Sign(s) * 2^23, e + k + 1>>
             ELSE <<Sign(s) * q1, e + k>>

RoundNorm(s, e) == Once2(RoundNormOf, s, e)

\* int -> float (exact below 2^24, rounded above).
FromInt(n) == RoundNorm(n, 0)

\* The smaller operand of a sum, aligned to the larger one's exponent less
\* four bits: three guard bits and a sticky bit for what the shift drops.
Aligned(m, d) ==
  IF d <= 3 THEN 2 * m * 2^(3 - d)
  ELSE IF d - 3 >= 25 THEN Sign(m)
  ELSE LET p == 2^(d - 3)
           q == Abs(m) \div p
           st == IF Abs(m) % p = 0 THEN 0 ELSE 1
       IN Sign(m) * (2 * q + st)

\* float + float
FAddOf(a, b) ==
  IF a[1] = 0 THEN b
  ELSE IF b[1] = 0 THEN a
  ELSE LET big == IF a[2] >= b[2] THEN a ELSE b
           sml == IF a[2] >= b[2] THEN b ELSE a
           d == big[2] - sml[2]
       IN RoundNorm(16 * big[1] + Aligned(sml[1], d), big[2] - 4)

FAdd(a, b) == Once2(FAddOf, a, b)

\* Long division: <<floor(r * 2^n / dv), (r * 2^n) % dv>> for r < dv < 2^24
\* and n <= 7, so that r * 2^n stays below 2^31.
DivStep(r, dv, n) == <<(r * 2^n) \div dv, (r * 2^n) % dv>>

\* <<floor(ma * 2^27 / mb), whether a remainder is left>>, for mantissas
\* ma, mb in [2^23, 2^24), seven quotient bits at a time.
DivBits(ma, mb) ==
  LET s1 == Once3(DivStep, ma % mb, mb, 7)
      s2 == Once3(DivStep, s1[2], mb, 7)
      s3 == Once3(DivStep, s2[2], mb, 7)
      s4 == Once3(DivStep, s3[2], mb, 6)
  IN <<((((ma \div mb) * 128 + s1[1]) * 128 + s2[1]) * 128 + s3[1]) * 64
         + s4[1],
       s4[2] # 0>>

\* float / float, b nonzero
FDivOf(a, b) ==
  IF a[1] = 0 THEN FZero
  ELSE LET ma == Abs(a[1])
           mb == Abs(b[1])
           qr == DivBits(ma, mb)
           st == IF qr[2] THEN 1 ELSE 0
           sg == Sign(a[1]) * Sign(b[1])
       IN RoundNorm(sg * (2 * qr[1] + st), a[2] - b[2] - 28)

FDiv(a, b) == Once2(FDivOf, a, b)

\* float * float(k) for a kernel weight k in -2 .. 2 (exact)
FMulIntOf(a, k) ==
  IF k = 0 \/ a[1] = 0 THEN FZero
  ELSE IF Abs(k) = 1 THEN <<Sign(k) * a[1], a[2]>>
  ELSE <<Sign(k) * a[1], a[2] + 1>>

FMulInt(a, k) == Once2(FMulIntOf, a, k)

\* std::abs(float)
FAbsOf(a) == <<Abs(a[1]), a[2]>>

FAbs(a) == Once1(FAbsOf, a)

\* a < b
FLessOf(a, b) ==
  IF a[1] = 0 THEN b[1] > 0
  ELSE IF b[1] = 0 THEN a[1] < 0
  ELSE IF Sign(a[1]) # Sign(b[1]) THEN a[1] < 0
  ELSE IF a[2] # b[2]
         THEN (IF a[1] > 0 THEN a[2] < b[2] ELSE a[2] > b[2])
  ELSE a[1] < b[1]

FLess(a, b) == Once2(FLessOf, a, b)

\* The integer part of a float (truncation toward zero), or 2^30 with the
\* float's sign when the integer part does not fit 30 bits.
FTruncOf(a) ==
  IF a[2] >= 7 THEN Sign(a[1]) * 2^30
  ELSE IF a[2] >= 0 THEN a[1] * 2^a[2]
  ELSE IF -a[2] >= 24 THEN 0
  ELSE Sign(a[1]) * (Abs(a[1]) \div 2^(-a[2]))

FTrunc(a) == Once1(FTruncOf, a)

\* ------------------------------------------------------------------------
\* Neighbourhood operators.  A field is a sequence of floats; the sample the
\* code calls input_pixels[i] is field[i + 1].

\* input_pixels[i].  An index outside the buffer reads no sample of the
\* field: the model hands back zero there and the read sets below expose it.
At(input_pixels, i) ==
  IF i + 1 \in DOMAIN input_pixels THEN input_pixels[i + 1] ELSE FZero

\* A window that is not clamped at the left and top borders.
ClampedWindow_NoLowerClamp(x, y, width, height, r) ==
  [start_x |-> x - r, end_x |-> Min(x + r, width - 1),
   start_y |-> y - r, end_y |-> Min(y + r, height - 1)]

\* The bounds of the sampled window of radius r around (x, y):
\* std::max(c - r, 0) and std::min(c + r, dim - 1) on each axis.
ClampedWindow(x, y, width, height, r) ==
  [start_x |-> Max(x - r, 0), end_x |-> Min(x + r, width - 1),
   start_y |-> Max(y - r, 0), end_y |-> Min(y + r, height - 1)]

\* The (dx, dy) pairs of "for dy in start_y..end_y: for dx in
\* start_x..end_x", in loop order.
WindowCellsOf(w) ==
  LET nx == w.end_x - w.start_x + 1
      ny == w.end_y - w.start_y + 1
  IN IF nx <= 0 \/ ny <= 0 THEN <<>>
     ELSE [k \in 1 .. nx * ny |->
             <<w.start_x + ((k - 1) % nx), w.start_y + ((k - 1) \div nx)>>]

WindowCells(w) == Once1(WindowCellsOf, w)

\* The window of sobel_operator (src/main.cpp:37-38).
SobelWindow(x, y, width, height) == ClampedWindow(x, y, width, height, 1)

\* The (dx, dy) pairs sobel_operator visits (src/main.cpp:40-41).
SobelCells(x, y, width, height) ==
  WindowCells(SobelWindow(x, y, width, height))

\* size_t values: 64-bit unsigned integers as four 16-bit limbs, the least
\* significant first.
Limb == 65536

\* The conversion of an int to size_t: the value modulo 2^64.
ToSizeT(n) ==
  LET ext == IF n < 0 THEN Limb - 1 ELSE 0
  IN <<n % Limb, (n \div Limb) % Limb, ext, ext>>

\* a - b on size_t, modulo 2^64.
SubSizeT(a, b) ==
  LET d1 == a[1] - b[1]
      d2 == a[2] - b[2] - (IF d1 < 0 THEN 1 ELSE 0)
      d3 == a[3] - b[3] - (IF d2 < 0 THEN 1 ELSE 0)
      d4 == a[4] - b[4] - (IF d3 < 0 THEN 1 ELSE 0)
  IN <<d1 % Limb, d2 % Limb, d3 % Limb, d4 % Limb>>

\* A size_t as an array index: its value when it is below 2^16, and
\* otherwise 2^16, an index as far outside every array of the program.
IndexOf(v) == IF v[2] = 0 /\ v[3] = 0 /\ v[4] = 0 THEN v[1] ELSE Limb

\* Mutant: the index is counted from the start of the clamped window.
KernelIndex_FromWindowStart(d, c) == d - Max(c - 1, 0)

\* dy - (y - 1) and dx - (x - 1) (src/main.cpp:44-45): d is a size_t, c - 1
\* an int that is -1 at the border and is converted to size_t, and the
\* difference is taken modulo 2^64.
KernelIndexOf(d, c) ==
  Once1(IndexOf, Once2(SubSizeT, ToSizeT(d), ToSizeT(c - 1)))

KernelIndex(d, c) == Once2(KernelIndexOf, d, c)

\* One run of the accumulation loop of sobel_operator over cells k..Len.
RECURSIVE SobelAcc(_, _, _, _, _, _, _)
SobelAcc(input_pixels, cells, k, x, y, width, g) ==
  IF k > Len(cells) THEN g
  ELSE LET dx == cells[k][1]
           dy == cells[k][2]
           pixel_value == At(input_pixels, dy * width + dx)
           Step(ky, kx) ==
             <<FAdd(g[1], FMulInt(pixel_value, SOBEL_X(ky, kx))),
               FAdd(g[2], FMulInt(pixel_value, SOBEL_Y(ky, kx)))>>
           Rest(g2) == SobelAcc(input_pixels, cells, k + 1, x, y, width, g2)
       IN Once1(Rest,
                Once2(Step, KernelIndex(dy, y), KernelIndex(dx, x)))

\* sobel_operator (src/main.cpp:33-50)
sobel_operator(input_pixels, x, y, width, height) ==
  LET Acc(cells) ==
        SobelAcc(input_pixels, cells, 1, x, y, width, <<FZero, FZero>>)
      Result(g) == FAdd(FAbs(g[1]), FAbs(g[2]))
  IN Once1(Result, Once1(Acc, SobelCells(x, y, width, height)))

\* g += input_pixels[row_offset + dx] over cells lo..hi, in loop order: cell
\* by cell on a short run, and on a long one the first half of the cells,
\* then the second half on that sum.
RECURSIVE WindowSum(_, _, _, _, _, _)
WindowSum(input_pixels, cells, lo, hi, width, g) ==
  IF lo > hi THEN g
  ELSE IF hi - lo < 16
    THEN WindowSum(input_pixels, cells, lo + 1, hi, width,
                   FAdd(g, At(input_pixels,
                              cells[lo][2] * width + cells[lo][1])))
  ELSE LET mid == (lo + hi) \div 2
           Right(g2) == WindowSum(input_pixels, cells, mid + 1, hi, width, g2)
       IN Once1(Right, WindowSum(input_pixels, cells, lo, mid, width, g))

\* A divisor that is the area of the unclamped blur window.
Divisor_FixedArea(w) == (2 * BLUR_RAD + 1) * (2 * BLUR_RAD + 1)

\* int divisor = (end_x - start_x + 1) * (end_y - start_y + 1)
Divisor(w) == (w.end_x - w.start_x + 1) * (w.end_y - w.start_y + 1)

\* The clamped-window average both blur_operator and dialate_operator
\* compute (src/main.cpp:56-71 and 80-96), r being the radius.
WindowAverage(input_pixels, x, y, width, height, r) ==
  LET Sum(cells) ==
        WindowSum(input_pixels, cells, 1, Len(cells), width, FZero)
      Average(w) == FDiv(Once1(Sum, WindowCells(w)), FromInt(Divisor(w)))
  IN Once1(Average, ClampedWindow(x, y, width, height, r))

\* blur_operator (src/main.cpp:54-72)
blur_operator(input_pixels, x, y, width, height) ==
  WindowAverage(input_pixels, x, y, width, height, BLUR_RAD)

\* Mutant: the test of the centre sample is left out.
dialate_operator_NoZeroTest(input_pixels, x, y, width, height) ==
  WindowAverage(input_pixels, x, y, width, height, DENOISE_RAD)

\* dialate_operator (src/main.cpp:74-97)
dialate_operator(input_pixels, x, y, width, height) ==
  IF At(input_pixels, y * width + x) = FZero THEN FZero
  ELSE WindowAverage(input_pixels, x, y, width, height, DENOISE_RAD)

\* The kernel cells sobel_operator uses at (x, y): for each sampled cell
\* (dx, dy) the column and the row of SOBEL_X and SOBEL_Y it is weighted by.
SobelKernelIndices(x, y, width, height) ==
  LET Indices(cells) ==
        {<<cells[k][1], cells[k][2],
           KernelIndex(cells[k][1], x), KernelIndex(cells[k][2], y)>> :
           k \in DOMAIN cells}
  IN Once1(Indices, SobelCells(x, y, width, height))

\* The indices i of the reads input_pixels[i] each operator makes at (x, y).
SobelReads(x, y, width, height) ==
  LET Indices(cells) ==
        {cells[k][2] * width + cells[k][1] : k \in DOMAIN cells}
  IN Once1(Indices, SobelCells(x, y, width, height))

CellIndices(cells, width) ==
  {cells[k][2] * width + cells[k][1] : k \in DOMAIN cells}

AverageReads(x, y, width, height, r) ==
  LET Indices(cells) == CellIndices(cells, width)
  IN Once1(Indices, WindowCells(ClampedWindow(x, y, width, height, r)))

BlurReads(x, y, width, height) == AverageReads(x, y, width, height, BLUR_RAD)

DialateReads(input_pixels, x, y, width, height) ==
  {y * width + x} \cup
    (IF At(input_pixels, y * width + x) = FZero THEN {}
     ELSE AverageReads(x, y, width, height, DENOISE_RAD))

\* The three operators handed to apply_kernel as kernel_func.
Operators == {"sobel", "blur", "dialate"}

\* kernel_func(input_pixels, x, y, width, height) (src/main.cpp:121)
kernel_func(op, input_pixels, x, y, width, height) ==
  CASE op = "sobel" -> sobel_operator(input_pixels, x, y, width, height)
    [] op = "blur" -> blur_operator(input_pixels, x, y, width, height)
    [] op = "dialate" -> dialate_operator(input_pixels, x, y, width, height)

\* The reads of that call.
KernelReads(op, input_pixels, x, y, width, height) ==
  CASE op = "sobel" -> SobelReads(x, y, width, height)
    [] op = "blur" -> BlurReads(x, y, width, height)
    [] op = "dialate" -> DialateReads(input_pixels, x, y, width, height)

\* ------------------------------------------------------------------------
\* Bounds of the model
MaxWidth == 3
MaxHeight == 2
MaxThreads == 2

\* The bytes a decoded image or a byte mask may hold.
Byte == 0 .. 255

\* Sample values of the input fields: float(0), float(255) and a mid grey.
SampleVals == {FromInt(0), FromInt(90), FromInt(255)}

\* The sample that stands at index k - 1 of the ramp field.
RampValue(k) == FromInt(3 * k)

\* The input fields of n samples: the uniform ones, a ramp, a single bright
\* sample on black and a single black sample on grey.
Fields(n) ==
  { [k \in 1 .. n |-> b] : b \in SampleVals }
  \cup { [k \in 1 .. n |-> RampValue(k)] }
  \cup { [k \in 1 .. n |-> IF k = p THEN FromInt(255) ELSE FZero] :
           p \in 1 .. n }
  \cup { [k \in 1 .. n |-> IF k = p THEN FZero ELSE FromInt(90)] :
           p \in 1 .. n }

\* ------------------------------------------------------------------------
\* State
VARIABLES
  width, height,     \* the image size (process_image, apply_kernel)
  channels, image,   \* what stbi_load returned: channel count and pixel bytes
  hw,                \* what std::thread::hardware_concurrency() reports
  pc,                \* where process_image / dialate stands
  i,                 \* the loop counter of the blur loop or of the dialate loop
  pixels,            \* the caller's field: `pixels` of process_image or dialate
  threshold,         \* `threshold` of process_image
  cast,              \* how this build converts an out-of-range float to a byte
  output_image,      \* the byte mask (output_image / output_pixels)
  kernel,            \* kernel_func of the running apply_kernel call
  ak_pc,             \* where apply_kernel stands: idle, spawn, join
  max_thread_count,  \* local of apply_kernel
  chunk_size,        \* local of apply_kernel
  out_pixels,        \* `pixels` of apply_kernel: the freshly allocated output
  thread_idx,        \* counter of the spawn loop
  join_idx,          \* position of the join loop
  threads,           \* the worker threads: state and locals of each lambda
  pass,              \* history: number of apply_kernel calls begun
  writers,           \* history: the workers that wrote each output cell this
                     \* pass, one entry per write, in the order of the writes
  invocations,       \* history: calls of kernel_func made in this pass
  oob,               \* history: an access outside a buffer has happened
  input_at_call,     \* history: the input field as it was when the call began
  last_complete,     \* history: the last call returned with every cell written
  probe,             \* one operator evaluation: coordinate, result, reads
  argv,              \* main: the files named on the command line, each one
                     \* decodable ("ok") or not ("bad")
  file_idx,          \* main: the loop counter i of the loop over the files
  outputs            \* main: the files whose output mask has been written
                     \* by a call of stbi_write_png that succeeded

vars == <<width, height, channels, image, hw, pc, i, pixels, threshold, cast,
          output_image, kernel, ak_pc, max_thread_count, chunk_size,
          out_pixels, thread_idx, join_idx, threads, pass, writers,
          invocations, oob, input_at_call, last_complete, probe, argv,
          file_idx, outputs>>

mainVars == <<argv, file_idx, outputs>>
imageVars == <<width, height, channels, image, hw>>
maskVars == <<threshold, cast, output_image>>
frameVars == <<max_thread_count, chunk_size, thread_idx, join_idx>>

ThreadIds == 0 .. MaxThreads - 1

\* A std::thread that runs no lambda, as the vector's constructor makes it.
NoThread == [st |-> "none", joined |-> FALSE, x |-> 0, y |-> 0,
             chunk_start |-> 0, chunk_end |-> 0, pass |-> 0]

\* ------------------------------------------------------------------------
\* apply_kernel (src/main.cpp:100-133)

\* The call sites of apply_kernel and the operator each passes.
CallSites == {"call", "blur_first", "sobel", "blur_loop", "dialate_loop"}

KernelAt(p, k) ==
  CASE p = "call" -> k
    [] p \in {"blur_first", "blur_loop"} -> "blur"
    [] p = "sobel" -> "sobel"
    [] p = "dialate_loop" -> "dialate"

\* Mutant: the band size rounded up instead of down.
ChunkSize_Ceil(w, t) == (w + t - 1) \div t

\* size_t chunk_size = width / max_thread_count, for max_thread_count > 0
ChunkSize(w, t) == w \div t

\* Lines 104-109: the locals of the call.  With max_thread_count = 0 the
\* division is undefined: the build either traps (x86) or yields 0 (ARM).
ApplyKernelBegin ==
  /\ pc \in CallSites
  /\ ak_pc = "idle"
  /\ \E trap \in BOOLEAN :
       /\ hw = 0 \/ ~trap
       /\ pc' = IF hw = 0 /\ trap THEN "crashed" ELSE pc
       /\ ak_pc' = IF hw = 0 THEN (IF trap THEN "idle" ELSE "join") ELSE "spawn"
       /\ chunk_size' = IF hw = 0 THEN 0 ELSE ChunkSize(width, hw)
  /\ kernel' = KernelAt(pc, kernel)
  /\ max_thread_count' = hw
  /\ out_pixels' = [k \in 1 .. width * height |-> FZero]
  /\ thread_idx' = 0
  /\ join_idx' = 0
  /\ pass' = pass + 1
  /\ writers' = [k \in 1 .. width * height |-> <<>>]
  /\ invocations' = 0
  /\ input_at_call' = pixels
  /\ UNCHANGED <<mainVars, imageVars, i, pixels, maskVars, threads, oob,
                 last_complete, probe>>

\* Lines 111-112: one iteration of the spawn loop starts a worker.
Spawn ==
  /\ ak_pc = "spawn"
  /\ thread_idx < max_thread_count
  /\ threads' = [threads EXCEPT ![thread_idx] =
                   [NoThread EXCEPT !.st = "started", !.pass = pass]]
  /\ thread_idx' = thread_idx + 1
  /\ ak_pc' = IF thread_idx + 1 < max_thread_count THEN "spawn" ELSE "join"
  /\ UNCHANGED <<mainVars, imageVars, pc, i, pixels, maskVars, kernel,
                 max_thread_count, chunk_size, out_pixels, join_idx, pass,
                 writers, invocations, oob, input_at_call, last_complete,
                 probe>>

\* size_t chunk_start = chunk_size * thread_idx (line 113)
ChunkStart(cs, idx) == cs * idx

\* Mutant: the last band does not absorb the remainder.
ChunkEnd_NoRemainder(cs, idx, t, w) == ChunkStart(cs, idx) + cs

\* Mutant: every band runs to the right edge.
ChunkEnd_ToWidth(cs, idx, t, w) == w

\* size_t chunk_end (lines 114-116)
ChunkEnd(cs, idx, t, w) ==
  IF idx = t - 1 THEN w ELSE ChunkStart(cs, idx) + cs

\* Lines 113-119: a worker computes its band and enters its loops; with an
\* empty band or no rows it runs through them without a write and ends.
WorkerStart(t) ==
  /\ threads[t].st = "started"
  /\ LET cstart == ChunkStart(chunk_size, t)
         cend == ChunkEnd(chunk_size, t, max_thread_count, width)
     IN threads' = [threads EXCEPT ![t] =
          [@ EXCEPT !.chunk_start = cstart, !.chunk_end = cend,
                    !.x = cstart, !.y = 0,
                    !.st = IF height > 0 /\ cstart < cend
                             THEN "running" ELSE "done"]]
  /\ UNCHANGED <<mainVars, imageVars, pc, i, pixels, maskVars, kernel, ak_pc,
                 frameVars, out_pixels, pass, writers, invocations, oob,
                 input_at_call, last_complete, probe>>

\* Mutant: the value is stored in place, in the input field.
StoreResult_InPlace(inp, out, idx, v) ==
  <<IF idx + 1 \in DOMAIN inp THEN [inp EXCEPT ![idx + 1] = v] ELSE inp,
    out>>

\* pixels[y * width + x] = ... (line 120): the store goes to the output
\* field of the call and leaves the input field as it is.  The pair is the
\* input field and the output field after the store.
StoreResult(inp, out, idx, v) ==
  <<inp,
    IF idx + 1 \in DOMAIN out THEN [out EXCEPT ![idx + 1] = v] ELSE out>>

\* Lines 120-121: one assignment pixels[y * width + x] = kernel_func(...),
\* followed by the loop steps up to the next assignment or the loops' end.
WorkerWrite(t) ==
  /\ threads[t].st = "running"
  /\ LET w == threads[t]
         idx == w.y * width + w.x
         v == kernel_func(kernel, pixels, w.x, w.y, width, height)
         rowEnd == w.x + 1 >= w.chunk_end
     IN /\ \E stored \in {StoreResult(pixels, out_pixels, idx, v)} :
             /\ pixels' = stored[1]
             /\ out_pixels' = stored[2]
        /\ writers' = IF idx + 1 \in DOMAIN writers
                        THEN [writers EXCEPT ![idx + 1] = Append(@, t)]
                        ELSE writers
        /\ invocations' = invocations + 1
        /\ oob' = (\/ oob
                   \/ idx + 1 \notin DOMAIN out_pixels
                   \/ \E r \in KernelReads(kernel, pixels, w.x, w.y, width,
                                            height) :
                        r + 1 \notin DOMAIN pixels)
        /\ threads' = [threads EXCEPT ![t] =
             [@ EXCEPT !.x = IF rowEnd THEN w.chunk_start ELSE w.x + 1,
                       !.y = IF rowEnd THEN w.y + 1 ELSE w.y,
                       !.st = IF rowEnd /\ w.y + 1 >= height
                                THEN "done" ELSE "running"]]
  /\ UNCHANGED <<mainVars, imageVars, pc, i, maskVars, kernel, ak_pc,
                 frameVars, pass, input_at_call, last_complete, probe>>

\* Mutant: the join does not wait.
JoinReturns_AtOnce(w) == TRUE

\* thread.join() returns once the thread has run to its end (line 129).
JoinReturns(w) == w.st = "done"

\* Lines 127-131: one iteration of the join loop.  A thread that was never
\* started is not joinable and is skipped.
Join ==
  /\ ak_pc = "join"
  /\ join_idx < max_thread_count
  /\ LET w == threads[join_idx]
     IN /\ w.st # "none" => JoinReturns(w)
        /\ threads' = IF w.st = "none" THEN threads
                      ELSE [threads EXCEPT ![join_idx].joined = TRUE]
  /\ join_idx' = join_idx + 1
  /\ UNCHANGED <<mainVars, imageVars, pc, i, pixels, maskVars, kernel, ak_pc,
                 max_thread_count, chunk_size, thread_idx, out_pixels, pass,
                 writers, invocations, oob, input_at_call, last_complete,
                 probe>>

\* Mutant: the samples are left as the dilation pass made them.
Quantize_Keep(f) == f

\* Mutant: the split point is 1 instead of 127.
Quantize_SplitAtOne(f) ==
  [k \in DOMAIN f |->
     IF FLess(FromInt(1), f[k]) THEN FromInt(255) ELSE FromInt(0)]

\* pixels[i] > 127 ? 255 : 0 (line 145)
Quantize(f) ==
  [k \in DOMAIN f |->
     IF FLess(FromInt(127), f[k]) THEN FromInt(255) ELSE FromInt(0)]

\* Where the caller goes on once apply_kernel has returned
\* (lines 178-188 of process_image, 142-147 of dialate).
AfterCall(p, n) ==
  CASE p = "call" -> <<"returned", 0>>
    [] p = "blur_first" -> <<"sobel", 0>>
    [] p = "sobel" -> <<"blur_loop", 0>>
    [] p = "blur_loop" ->
         IF n + 1 < BLUR_COUNT THEN <<"blur_loop", n + 1>>
         ELSE <<"histogram", 0>>
    [] p = "dialate_loop" ->
         IF n + 1 < DENOISE_COUNT THEN <<"dialate_loop", n + 1>>
         ELSE <<"dialate_end", 0>>

\* Line 132 and the caller's assignment: the join loop is over, the vector
\* of threads is destroyed (std::terminate if one is still joinable), the
\* output field becomes the caller's `pixels`; in dialate the quantization
\* loop of lines 144-146 follows at once.
ApplyKernelReturn ==
  /\ ak_pc = "join"
  /\ join_idx >= max_thread_count
  /\ LET unjoined == \E t \in ThreadIds :
                        threads[t].st # "none" /\ threads[t].pass = pass
                        /\ ~threads[t].joined
         nxt == AfterCall(pc, i)
     IN /\ pc' = IF unjoined THEN "crashed" ELSE nxt[1]
        /\ i' = IF unjoined THEN i ELSE nxt[2]
        /\ pixels' = IF unjoined THEN pixels
                     ELSE IF pc = "dialate_loop" THEN Quantize(out_pixels)
                     ELSE out_pixels
  /\ ak_pc' = "idle"
  /\ threads' = [t \in ThreadIds |->
                   IF threads[t].st = "done" THEN NoThread ELSE threads[t]]
  /\ last_complete' = /\ \A k \in DOMAIN writers : writers[k] # <<>>
                      /\ \A t \in ThreadIds :
                           threads[t].st \in {"none", "done"}
  /\ UNCHANGED <<mainVars, imageVars, maskVars, kernel, frameVars, out_pixels,
                 pass, writers, invocations, oob, input_at_call, probe>>

\* ------------------------------------------------------------------------
\* The states a call of apply_kernel starts from: any size, any worker
\* count, any operator, any field of the family.
NoProbe ==
  [op |-> "none", x |-> 0, y |-> 0, result |-> FZero, reads |-> {},
   kernel_indices |-> {}]

InitCall ==
  /\ ak_pc = "idle"
  /\ max_thread_count = 0
  /\ chunk_size = 0
  /\ out_pixels = <<>>
  /\ thread_idx = 0
  /\ join_idx = 0
  /\ threads = [t \in ThreadIds |-> NoThread]
  /\ pass = 0
  /\ writers = <<>>
  /\ invocations = 0
  /\ oob = FALSE
  /\ input_at_call = <<>>
  /\ last_complete = FALSE
  /\ threshold = 0
  /\ cast = "unused"
  /\ i = 0
  /\ probe = NoProbe

InitFrame ==
  /\ InitCall
  /\ output_image = <<>>

\* main is not part of the run.
NoMain ==
  /\ argv = <<>>
  /\ file_idx = 0
  /\ outputs = {}

Init ==
  /\ width \in 0 .. MaxWidth
  /\ height \in 0 .. MaxHeight
  /\ hw \in 0 .. MaxThreads
  /\ kernel \in Operators
  /\ pixels \in Fields(width * height)
  /\ channels = 0
  /\ image = <<>>
  /\ pc = "call"
  /\ InitFrame
  /\ NoMain

Worker == \E t \in ThreadIds : WorkerStart(t) \/ WorkerWrite(t)

Next ==
  \/ ApplyKernelBegin
  \/ Spawn
  \/ Worker
  \/ Join
  \/ ApplyKernelReturn

Spec == Init /\ [][Next]_vars

\* ------------------------------------------------------------------------
\* process_image and dialate (src/main.cpp:135-225)

\* The colours of the decoded images: black, a dark colour, white.
Colours == {<<0, 0, 0>>, <<10, 20, 31>>, <<255, 255, 255>>}

\* What stbi_load may hand back for n pixels of ch channels: the first pixel
\* of one colour, all the others of another (or the same).
Images(n, ch) ==
  { [k \in 1 .. n * ch |->
       (IF (k - 1) \div ch = 0 THEN c1 ELSE c2)[((k - 1) % ch) + 1]] :
      c1 \in Colours, c2 \in Colours }

\* (image[index] + image[index + 1] + image[index + 2]) / 3.0f, or 0 with
\* fewer than three channels (lines 168-173).
Average(img, ch, k) ==
  IF ch >= 3
    THEN FDiv(FromInt(img[k * ch + 1] + img[k * ch + 2] + img[k * ch + 3]),
              FromInt(3))
    ELSE FZero

\* Lines 166-174: the grayscale reduction.
Reduce ==
  /\ pc = "reduce"
  /\ pixels' = [k \in 1 .. width * height |-> Average(image, channels, k - 1)]
  /\ pc' = "blur_first"
  /\ UNCHANGED <<mainVars, imageVars, i, maskVars, kernel, ak_pc, frameVars,
                 out_pixels, threads, pass, writers, invocations, oob,
                 input_at_call, last_complete, probe>>

\* What a build makes of the conversion of a float outside 0..255 to
\* unsigned char, which the language leaves undefined: the low byte of the
\* truncated integer, or the nearest byte.
CastModes == {"wrap", "saturate"}

\* static_cast<unsigned char>(float)
ToByte(f, mode) ==
  LET Conv(n) == IF n \in Byte THEN n
                 ELSE IF mode = "saturate" THEN (IF n < 0 THEN 0 ELSE 255)
                 ELSE n % 256
  IN Once1(Conv, FTrunc(f))

\* A sample whose conversion to unsigned char is undefined.
OutOfByteRange(f) == FTrunc(f) \notin Byte

\* pixel_frequency after lines 192-199, as the set of its keys and the count
\* of each: the byte values 1..50 among the samples.
Frequency(bytes, v) == Cardinality({k \in DOMAIN bytes : bytes[k] = v})

FrequencyKeys(bytes) == {v \in 1 .. 50 : \E k \in DOMAIN bytes : bytes[k] = v}

\* The keys std::max_element may return (lines 201-207): one of highest
\* count, which one being a matter of the table's iteration order.
ModeKeys(bytes) ==
  {v \in FrequencyKeys(bytes) :
     \A u \in FrequencyKeys(bytes) : Frequency(bytes, u) <= Frequency(bytes, v)}

\* Lines 192-207: the histogram and the choice of the threshold.  On an empty
\* table max_element returns end(), whose dereference is undefined: the
\* run crashes (outcome -1) or reads some byte.
SelectThreshold ==
  /\ pc = "histogram"
  /\ \E mode \in (IF \E k \in DOMAIN pixels : OutOfByteRange(pixels[k])
                    THEN CastModes ELSE {cast}) :
       LET bytes == [k \in DOMAIN pixels |-> ToByte(pixels[k], mode)]
       IN \E t \in (IF FrequencyKeys(bytes) = {} THEN {-1} \cup Byte
                    ELSE ModeKeys(bytes)) :
            /\ cast' = mode
            /\ threshold' = IF t = -1 THEN threshold ELSE t
            /\ pc' = IF t = -1 THEN "crashed" ELSE "classify"
  /\ UNCHANGED <<mainVars, imageVars, i, pixels, output_image, kernel, ak_pc,
                 frameVars, out_pixels, threads, pass, writers, invocations,
                 oob, input_at_call, last_complete, probe>>

\* Lines 212-217: foreground where the byte is within CERTAINTY of the
\* threshold.
Classify ==
  /\ pc = "classify"
  /\ output_image' =
       [k \in DOMAIN pixels |->
          IF Abs(ToByte(pixels[k], cast) - threshold) < CERTAINTY
            THEN 255 ELSE 0]
  /\ pc' = "dialate_begin"
  /\ UNCHANGED <<mainVars, imageVars, i, pixels, threshold, cast, kernel,
                 ak_pc, frameVars, out_pixels, threads, pass, writers,
                 invocations, oob, input_at_call, last_complete, probe>>

\* Line 219 and lines 137-140: dialate() widens the mask to floats.  The
\* threshold and the conversion it rested on are read no more; the model
\* forgets them here.
DialateBegin ==
  /\ pc = "dialate_begin"
  /\ pixels' = [k \in 1 .. width * height |-> FromInt(output_image[k])]
  /\ i' = 0
  /\ threshold' = 0
  /\ cast' = "unused"
  /\ pc' = "dialate_loop"
  /\ UNCHANGED <<mainVars, imageVars, output_image, kernel, ak_pc, frameVars,
                 out_pixels, threads, pass, writers, invocations, oob,
                 input_at_call, last_complete, probe>>

\* Lines 149-154 and 219-224: the mask goes back to bytes and is written.
DialateEnd ==
  /\ pc = "dialate_end"
  /\ output_image' = [k \in DOMAIN pixels |-> ToByte(pixels[k], "wrap")]
  /\ pc' = "done"
  /\ UNCHANGED <<mainVars, imageVars, i, pixels, threshold, cast, kernel,
                 ak_pc, frameVars, out_pixels, threads, pass, writers,
                 invocations, oob, input_at_call, last_complete, probe>>

\* The state process_image starts from once stbi_load has succeeded.
PipeInit ==
  /\ width \in 1 .. MaxWidth
  /\ height \in 1 .. MaxHeight
  /\ channels \in {1, 3}
  /\ image \in Images(width * height, channels)
  /\ hw \in 0 .. MaxThreads
  /\ kernel = "none"
  /\ pixels = <<>>
  /\ pc = "reduce"
  /\ InitFrame
  /\ NoMain

PipeNext ==
  \/ Reduce
  \/ ApplyKernelBegin
  \/ Spawn
  \/ Worker
  \/ Join
  \/ ApplyKernelReturn
  \/ SelectThreshold
  \/ Classify
  \/ DialateBegin
  \/ DialateEnd

PipeSpec == PipeInit /\ [][PipeNext]_vars

\* ------------------------------------------------------------------------
\* main (src/main.cpp:227-238)

\* The most files on a command line.
MaxFiles == 2

\* Lines 228-232: without a file main throws, and nothing catches what is
\* thrown in this program: the run is terminated.
MainBegin ==
  /\ pc = "main"
  /\ pc' = IF Len(argv) < 1 THEN "terminated" ELSE "main_loop"
  /\ file_idx' = 1
  /\ UNCHANGED <<argv, outputs, imageVars, i, pixels, maskVars, kernel, ak_pc,
                 frameVars, out_pixels, threads, pass, writers, invocations,
                 oob, input_at_call, last_complete, probe>>

\* Lines 232-234 and 158-162: the next file is handed to process_image,
\* whose stbi_load gives an image of some size, of one or three channels,
\* or fails; on a failure process_image throws "unable to load image" and
\* the exception leaves main uncaught.
LoadImage ==
  /\ pc = "main_loop"
  /\ file_idx <= Len(argv)
  /\ IF argv[file_idx] = "bad"
       THEN /\ pc' = "terminated"
            /\ UNCHANGED <<width, height, channels, image>>
       ELSE /\ pc' = "reduce"
            /\ width' \in 1 .. MaxWidth
            /\ height' \in 1 .. MaxHeight
            /\ channels' \in {1, 3}
            /\ image' \in Images(width' * height', channels')
  /\ pixels' = <<>>
  /\ output_image' = <<>>
  /\ i' = 0
  /\ pass' = 0
  /\ UNCHANGED <<mainVars, hw, threshold, cast, kernel, ak_pc, frameVars,
                 out_pixels, threads, writers, invocations, oob,
                 input_at_call, last_complete, probe>>

\* Lines 223-225 and 232: stbi_write_png writes the mask of the file or
\* fails (it returns 0 when the file cannot be opened); line 223 does not
\* look at what it returns, so either way process_image returns and the
\* loop of main goes on to the next file.
FileDone ==
  /\ pc = "done"
  /\ file_idx \in DOMAIN argv
  /\ \E written \in BOOLEAN :
       outputs' = IF written THEN outputs \cup {file_idx} ELSE outputs
  /\ file_idx' = file_idx + 1
  /\ pc' = "main_loop"
  /\ UNCHANGED <<argv, imageVars, i, pixels, maskVars, kernel, ak_pc,
                 frameVars, out_pixels, threads, pass, writers, invocations,
                 oob, input_at_call, last_complete, probe>>

\* Line 237: the loop is over, main returns 0.
MainReturn ==
  /\ pc = "main_loop"
  /\ file_idx > Len(argv)
  /\ pc' = "exit"
  /\ UNCHANGED <<mainVars, imageVars, i, pixels, maskVars, kernel, ak_pc,
                 frameVars, out_pixels, threads, pass, writers, invocations,
                 oob, input_at_call, last_complete, probe>>

MainInit ==
  /\ argv \in UNION {[1 .. n -> {"ok", "bad"}] : n \in 0 .. MaxFiles}
  /\ file_idx = 0
  /\ outputs = {}
  /\ width = 0
  /\ height = 0
  /\ channels = 0
  /\ image = <<>>
  /\ hw \in 0 .. MaxThreads
  /\ kernel = "none"
  /\ pixels = <<>>
  /\ pc = "main"
  /\ InitFrame

MainNext ==
  \/ MainBegin
  \/ LoadImage
  \/ Reduce
  \/ ApplyKernelBegin
  \/ Spawn
  \/ Worker
  \/ Join
  \/ ApplyKernelReturn
  \/ SelectThreshold
  \/ Classify
  \/ DialateBegin
  \/ DialateEnd
  \/ FileDone
  \/ MainReturn

MainSpec == MainInit /\ [][MainNext]_vars

\* ------------------------------------------------------------------------
\* dialate on its own (src/main.cpp:135-155): the masks it may be handed.

\* Byte masks of n samples: the uniform ones (0, 90, 255), a ramp, a single
\* 255 on 0 and a single 0 on 255.
Masks(n) ==
  { [k \in 1 .. n |-> b] : b \in {0, 90, 255} }
  \cup { [k \in 1 .. n |-> 3 * k] }
  \cup { [k \in 1 .. n |-> IF k = p THEN 255 ELSE 0] : p \in 1 .. n }
  \cup { [k \in 1 .. n |-> IF k = p THEN 0 ELSE 255] : p \in 1 .. n }

\* The state a call of dialate(input_pixels, width, height) starts from.
DialateInit ==
  /\ width \in 1 .. MaxWidth
  /\ height \in 1 .. MaxHeight
  /\ channels = 1
  /\ image = <<>>
  /\ hw \in 0 .. MaxThreads
  /\ kernel = "none"
  /\ pixels = <<>>
  /\ pc = "dialate_begin"
  /\ InitCall
  /\ output_image \in Masks(width * height)
  /\ NoMain

DialateNext ==
  \/ DialateBegin
  \/ ApplyKernelBegin
  \/ Spawn
  \/ Worker
  \/ Join
  \/ ApplyKernelReturn
  \/ DialateEnd

DialateSpec == DialateInit /\ [][DialateNext]_vars

\* Masks with a single foreground sample, on fields that exceed the window
\* of dialate_operator on each side.
SpeckSide == 2 * DENOISE_RAD + 2
SpeckExtra == 1

\* The places of the single sample: the corners, the middles of the sides
\* and the middle of the field.
SpeckPlaces(w, h) ==
  {y * w + x + 1 : x \in {0, w \div 2, w - 1}, y \in {0, h \div 2, h - 1}}

SpeckInit ==
  /\ width \in SpeckSide .. SpeckSide + SpeckExtra
  /\ height \in SpeckSide .. SpeckSide + SpeckExtra
  /\ channels = 1
  /\ image = <<>>
  /\ hw \in 0 .. 1
  /\ kernel = "none"
  /\ pixels = <<>>
  /\ pc = "dialate_begin"
  /\ InitCall
  /\ output_image \in
       { [k \in 1 .. width * height |-> IF k = p THEN 255 ELSE 0] :
           p \in SpeckPlaces(width, height) }
  /\ NoMain

SpeckSpec == SpeckInit /\ [][DialateNext]_vars

\* ------------------------------------------------------------------------
\* The operators on their own: one call of kernel_func at a coordinate of a
\* field, as the lambda of apply_kernel makes it (src/main.cpp:120-121).

\* Bounds of the fields the operators are evaluated on.
OpMaxWidth == 7
OpMaxHeight == 4

\* kernel_func(input_pixels, x, y, width, height) for one (x, y) of the field.
Evaluate ==
  /\ pc = "probe"
  /\ \E x \in 0 .. width - 1 : \E y \in 0 .. height - 1 :
       probe' = [op |-> kernel, x |-> x, y |-> y,
                 result |-> kernel_func(kernel, pixels, x, y, width, height),
                 reads |-> KernelReads(kernel, pixels, x, y, width, height),
                 kernel_indices |->
                   IF kernel = "sobel"
                     THEN SobelKernelIndices(x, y, width, height)
                     ELSE {}]
  /\ pc' = "probed"
  /\ UNCHANGED <<mainVars, imageVars, i, pixels, maskVars, kernel, ak_pc,
                 frameVars, out_pixels, threads, pass, writers, invocations,
                 oob, input_at_call, last_complete>>

OpInit ==
  /\ width \in 1 .. OpMaxWidth
  /\ height \in 1 .. OpMaxHeight
  /\ hw = 1
  /\ kernel \in Operators
  /\ pixels \in Fields(width * height)
  /\ channels = 0
  /\ image = <<>>
  /\ pc = "probe"
  /\ InitFrame
  /\ NoMain

OpNext == Evaluate

OpSpec == OpInit /\ [][OpNext]_vars

\* The fields of the runs whose progress is followed: the black field and
\* the ramp.  Which worker runs, writes and ends does not depend on the
\* samples, except that dialate_operator returns early on a zero sample.
PlainFields(n) ==
  {[k \in 1 .. n |-> FZero], [k \in 1 .. n |-> RampValue(k)]}

FairInit ==
  /\ Init
  /\ pixels \in PlainFields(width * height)

\* The scheduler lets every runnable thread run: the caller of apply_kernel
\* and each worker go on as long as they can.
FairSpec ==
  /\ FairInit
  /\ [][Next]_vars
  /\ WF_vars(ApplyKernelBegin \/ Spawn \/ Join \/ ApplyKernelReturn)
  /\ \A t \in ThreadIds : WF_vars(WorkerStart(t) \/ WorkerWrite(t))

\* ------------------------------------------------------------------------
\* Properties of apply_kernel

\* A single-threaded evaluation of the operator over the whole field.
Reference(op, f, w, h) ==
  [k \in 1 .. w * h |-> kernel_func(op, f, (k - 1) % w, (k - 1) \div w, w, h)]

\* The band [chunk_start, chunk_end) of worker t in the running call.
Band(t) ==
  { x \in 0 .. width - 1 :
      /\ ChunkStart(chunk_size, t) <= x
      /\ x < ChunkEnd(chunk_size, t, max_thread_count, width) }

Workers == 0 .. max_thread_count - 1

\* C1: with T >= 1 workers, in every interleaving, the field apply_kernel
\* returns has width*height samples and the sample at y*width+x is the
\* operator evaluated at (x, y) on the input field.
C1_OutputIsOperatorEverywhere ==
  (pc = "returned" /\ max_thread_count >= 1) =>
    /\ Len(pixels) = width * height
    /\ \A x \in 0 .. width - 1 : \A y \in 0 .. height - 1 :
         pixels[y * width + x + 1]
           = kernel_func(kernel, input_at_call, x, y, width, height)

\* A call with two workers and a remainder column has returned a field that
\* is not uniform.
C1_Witness ==
  /\ pc = "returned"
  /\ max_thread_count = 2
  /\ width = 3
  /\ height = 2
  /\ pixels = Reference(kernel, input_at_call, width, height)
  /\ \E k \in DOMAIN pixels : pixels[k] # pixels[1]

\* C2: no output cell is written by two different workers; a worker writes
\* only cells whose column lies in its own band, and the bands of distinct
\* workers do not overlap.
C2_NoWriteWriteRace ==
  /\ \A k \in DOMAIN writers : \A n \in DOMAIN writers[k] :
       /\ writers[k][n] = writers[k][1]
       /\ (k - 1) % width \in Band(writers[k][n])
  /\ ak_pc # "idle" =>
       \A t \in Workers : \A u \in Workers :
         t # u => Band(t) \cap Band(u) = {}

\* Two workers have each written a cell of the same pass.
C2_Witness ==
  /\ \E k \in DOMAIN writers : writers[k] = <<0>>
  /\ \E k \in DOMAIN writers : writers[k] = <<1>>

\* C3: apply_kernel returns only after every worker it spawned has ended,
\* and every spawned worker does end and is joined: once a worker has been
\* started, the call reaches the point where all its workers have run to
\* their end and have been joined.
C3_ForkJoin ==
  /\ [](ak_pc = "idle" =>
          \A t \in ThreadIds : threads[t].st \notin {"started", "running"})
  /\ [][ApplyKernelReturn =>
          \A t \in Workers : threads[t].st = "done" /\ threads[t].joined]_vars
  /\ (\E t \in ThreadIds : threads[t].st = "started")
       ~> (\A t \in Workers : threads[t].st = "done" /\ threads[t].joined)

\* The call has returned after two workers wrote their cells.
C3_Witness ==
  /\ pc = "returned"
  /\ ak_pc = "idle"
  /\ max_thread_count = 2
  /\ \E k \in DOMAIN writers : writers[k] = <<0>>
  /\ \E k \in DOMAIN writers : writers[k] = <<1>>
  /\ \A t \in ThreadIds : threads[t].st = "none"

\* C4: the passes of the pipeline are strictly sequential.  Every worker
\* belongs to the pass under way, and a pass begins only when no worker is
\* left and the previous pass has returned with every cell written, its
\* output (quantized, in dialate) being the field the new pass reads.
C4_WorkersOfThisPass ==
  \A t \in ThreadIds : threads[t].st # "none" => threads[t].pass = pass

C4_BeginsAfterPreviousPass ==
  (ApplyKernelBegin /\ pass >= 1) =>
    /\ \A t \in ThreadIds : threads[t].st = "none"
    /\ last_complete
    /\ pc \in {"sobel", "blur_loop"} => pixels = out_pixels
    /\ (pc = "dialate_loop" /\ i >= 1) => pixels = Quantize(out_pixels)

C4_PassesAreSequential ==
  /\ []C4_WorkersOfThisPass
  /\ [][C4_BeginsAfterPreviousPass]_vars

\* The same statement for the runs in which hardware_concurrency() is not 0.
C4_SequentialWithWorkers ==
  /\ []C4_WorkersOfThisPass
  /\ [][hw >= 1 => C4_BeginsAfterPreviousPass]_vars

\* The second dilation pass is under way with two workers, one of which has
\* written a cell, after the 23 passes before it.
C4_Witness ==
  /\ pc = "dialate_loop"
  /\ i = 1
  /\ pass = BLUR_COUNT + 4
  /\ threads[0].st = "running"
  /\ threads[1].st = "running"
  /\ \E k \in DOMAIN writers : writers[k] # <<>>
  /\ input_at_call = pixels
  /\ last_complete

\* C5: when the hardware parallelism is reported as 0 the engine works with
\* one worker: no division by zero, and the returned field holds the
\* operator's value at every coordinate.
C5_ZeroParallelismFallsBackToOne ==
  hw = 0 =>
    /\ pc # "crashed"
    /\ ak_pc # "idle" => max_thread_count = 1
    /\ pc = "returned" =>
         pixels = Reference(kernel, input_at_call, width, height)

\* C6: for T >= 1 the bands are contiguous, pairwise disjoint and cover
\* [0, width): band t < T-1 is [t*floor(width/T), (t+1)*floor(width/T)) and
\* the last one runs from (T-1)*floor(width/T) to width.
C6_BandsPartitionColumns ==
  (ak_pc # "idle" /\ max_thread_count >= 1) =>
    LET T == max_thread_count
        q == width \div T
    IN /\ \A t \in Workers :
            threads[t].st \in {"running", "done"} =>
              /\ threads[t].chunk_start = t * q
              /\ threads[t].chunk_end = IF t = T - 1 THEN width ELSE (t + 1) * q
       /\ \A t \in Workers :
            Band(t) = IF t = T - 1 THEN (T - 1) * q .. width - 1
                      ELSE t * q .. (t + 1) * q - 1
       /\ UNION {Band(t) : t \in Workers} = 0 .. width - 1
       /\ \A t \in Workers : \A u \in Workers :
            t # u => Band(t) \cap Band(u) = {}

\* Two workers on three columns: the bands are [0,1) and [1,3).
C6_Witness ==
  /\ max_thread_count = 2
  /\ width = 3
  /\ threads[0].st = "done" /\ threads[0].chunk_start = 0
  /\ threads[0].chunk_end = 1
  /\ threads[1].st = "running" /\ threads[1].chunk_start = 1
  /\ threads[1].chunk_end = 3

\* C7: with 0 < width < T the pass ends, makes no out-of-range access and
\* writes every output cell exactly once, all by the last worker; with
\* width = 0 or height = 0 the pass ends, never calls the operator and
\* returns an empty field.  C7_Safety is the part that holds of each state.
C7_Safety ==
  /\ (width < hw \/ width = 0 \/ height = 0) => (~oob /\ pc # "crashed")
  /\ (0 < width /\ width < hw /\ pc = "returned") =>
       \A k \in DOMAIN writers : writers[k] = <<hw - 1>>
  /\ (width = 0 \/ height = 0) =>
       /\ invocations = 0
       /\ pc = "returned" => pixels = <<>>

C7_DegenerateSizes ==
  /\ []C7_Safety
  /\ (width < hw \/ width = 0 \/ height = 0) ~> pc = "returned"

\* The same statement for the runs in which hardware_concurrency() is not 0.
C7_DegenerateWithWorkers ==
  /\ [](hw >= 1 => C7_Safety)
  /\ (hw >= 1 /\ (width < hw \/ height = 0)) ~> pc = "returned"

\* One column and two workers: the call has returned, the second worker
\* having written both rows.
C7_Witness ==
  /\ pc = "returned"
  /\ width = 1
  /\ height = 2
  /\ hw = 2
  /\ writers = <<<<1>>, <<1>>>>
  /\ pixels = Reference(kernel, input_at_call, width, height)

\* A call on a field with no column has returned the empty field.
C7_WitnessEmpty ==
  /\ pc = "returned"
  /\ width = 0
  /\ height = 2
  /\ hw = 2
  /\ pixels = <<>>

\* C17: during a pass no worker and no operator modifies the input field:
\* while the call runs, and when its workers are joined, every sample of
\* the input field has the value it had when the pass began.
C17_InputFieldIsNotModified ==
  /\ [](ak_pc # "idle" => pixels = input_at_call)
  /\ [][ApplyKernelReturn =>
          (pixels = input_at_call /\ Len(pixels) = width * height)]_vars

\* Two workers have been joined after writing all six cells of an output
\* field that differs from the input field.
C17_Witness ==
  /\ ak_pc = "join"
  /\ max_thread_count = 2
  /\ join_idx = 2
  /\ width = 3
  /\ height = 2
  /\ \A k \in DOMAIN writers : writers[k] # <<>>
  /\ out_pixels # input_at_call
  /\ pixels = input_at_call

\* ------------------------------------------------------------------------
\* Properties of the operators

\* The integer a float with an integral value stands for.
IntOf(f) == IF f[2] >= 0 THEN f[1] * 2 ^ f[2] ELSE f[1] \div 2 ^ (0 - f[2])

Uniform(f) == \A k \in DOMAIN f : f[k] = f[1]

\* The columns and the rows of the clamped window of radius r at (x, y).
ClampedColumns(x, r) ==
  (IF x - r < 0 THEN 0 ELSE x - r) ..
  (IF x + r > width - 1 THEN width - 1 ELSE x + r)

ClampedRows(y, r) ==
  (IF y - r < 0 THEN 0 ELSE y - r) ..
  (IF y + r > height - 1 THEN height - 1 ELSE y + r)

Radius(op) ==
  CASE op = "sobel" -> 1
    [] op = "blur" -> BLUR_RAD
    [] op = "dialate" -> DENOISE_RAD

\* C8: on a uniform field sobel_operator returns 0 at every coordinate,
\* those of the border included.
C8_SobelOfUniformFieldIsZero ==
  (probe.op = "sobel" /\ Uniform(pixels)) => probe.result = FZero

\* C9: blur_operator returns the sum of the samples of the clamped window
\* divided by the number of its cells, which is at least 1; on a 1x1 field
\* that is the input sample.
C9_BlurIsWindowSumOverArea ==
  probe.op = "blur" =>
    LET cols == ClampedColumns(probe.x, BLUR_RAD)
        rows == ClampedRows(probe.y, BLUR_RAD)
        cells == {<<dx, dy>> : dx \in cols, dy \in rows}
        sum == (LET RECURSIVE Total(_)
                    Total(S) == IF S = {} THEN 0
                                ELSE LET c == CHOOSE c \in S : TRUE
                                     IN IntOf(pixels[c[2] * width + c[1] + 1])
                                        + Total(S \ {c})
                IN Total(cells))
        area == Cardinality(cols) * Cardinality(rows)
    IN /\ area >= 1
       /\ area = Cardinality(cells)
       /\ probe.result = FDiv(FromInt(sum), FromInt(area))
       /\ (width = 1 /\ height = 1) => probe.result = pixels[1]

\* The blur of a ramp at a corner of a field wider than the window: the
\* window is clamped on two sides and is not the whole field.
C9_Witness ==
  /\ probe.op = "blur"
  /\ width = 7
  /\ height = 2
  /\ probe.x = 0
  /\ probe.y = 0
  /\ pixels[2] = RampValue(2)
  /\ probe.result = FDiv(FromInt(3 * (1 + 2 + 3 + 4 + 8 + 9 + 10 + 11)),
                         FromInt(8))

\* The blur of a 1x1 field is its sample.
C9_WitnessSinglePixel ==
  /\ probe.op = "blur"
  /\ width = 1
  /\ height = 1
  /\ pixels = <<FromInt(90)>>
  /\ probe.result = FromInt(90)

\* C10: each operator samples the clamped window [max(c-r,0),
\* min(c+r,dim-1)] on each axis (dialate_operator reads the centre alone
\* when it is 0), and every index it reads lies in [0, width*height).
C10_ReadsAreClampedAndInRange ==
  probe.op # "none" =>
    LET r == Radius(probe.op)
        cols == ClampedColumns(probe.x, r)
        rows == ClampedRows(probe.y, r)
        centre == probe.y * width + probe.x
    IN /\ \A idx \in probe.reads : 0 <= idx /\ idx < width * height
       /\ probe.reads =
            IF probe.op = "dialate" /\ pixels[centre + 1] = FZero
              THEN {centre}
              ELSE {dy * width + dx : dx \in cols, dy \in rows}
       /\ \A idx \in probe.reads :
            /\ idx % width \in probe.x - r .. probe.x + r
            /\ idx \div width \in probe.y - r .. probe.y + r

\* The three operators at the left border of a field wider than each
\* window's reach to the left, and sobel_operator in its interior.
C10_Witness ==
  /\ width = 7
  /\ height = 3
  /\ probe.op = "blur"
  /\ probe.x = 1
  /\ probe.y = 2
  /\ probe.reads = {dy * 7 + dx : dx \in 0 .. 4, dy \in 0 .. 2}

C10_WitnessDialate ==
  /\ width = 7
  /\ height = 3
  /\ probe.op = "dialate"
  /\ probe.x = 6
  /\ probe.y = 0
  /\ probe.reads = 0 .. 20

C10_WitnessSobel ==
  /\ width = 3
  /\ height = 3
  /\ probe.op = "sobel"
  /\ probe.x = 0
  /\ probe.y = 2
  /\ probe.reads = {3, 4, 6, 7}


\* C18: in sobel_operator, at every coordinate, x = 0 and y = 0 included,
\* the kernel indices dy-(y-1) and dx-(x-1) of every sampled cell are in
\* {0, 1, 2} and are the cell's offset from the top-left corner
\* (x-1, y-1) of the unclamped 3x3 window.
C18_KernelIndicesAreTrueOffsets ==
  probe.op = "sobel" =>
    /\ {<<q[1], q[2]>> : q \in probe.kernel_indices}
         = ClampedColumns(probe.x, 1) \X ClampedRows(probe.y, 1)
    /\ \A q \in probe.kernel_indices :
         /\ q[3] \in {0, 1, 2}
         /\ q[4] \in {0, 1, 2}
         /\ q[3] + (probe.x - 1) = q[1]
         /\ q[4] + (probe.y - 1) = q[2]

\* sobel_operator at the top-left corner, where x - 1 and y - 1 are -1: the
\* four sampled cells use the kernel cells (1,1), (1,2), (2,1) and (2,2).
C18_Witness ==
  /\ probe.op = "sobel"
  /\ probe.x = 0
  /\ probe.y = 0
  /\ width = 3
  /\ height = 3
  /\ probe.kernel_indices =
       {<<0, 0, 1, 1>>, <<1, 0, 2, 1>>, <<0, 1, 1, 2>>, <<1, 1, 2, 2>>}

\* ------------------------------------------------------------------------
\* Properties of dialate

\* The mask dialate works on, as floats: its argument before the widening
\* loop and its result after the narrowing one, `pixels` in between.
MaskState ==
  IF pc \in {"dialate_begin", "done"}
    THEN [k \in DOMAIN output_image |-> FromInt(output_image[k])]
    ELSE pixels

\* The exact mean of the integral samples of f over the clamped window of
\* radius r at (x, y), rounded once to a float.
WindowMean(f, x, y, r) ==
  LET cols == ClampedColumns(x, r)
      rows == ClampedRows(y, r)
      RECURSIVE Total(_)
      Total(S) == IF S = {} THEN 0
                  ELSE LET c == CHOOSE c \in S : TRUE
                       IN IntOf(f[c[2] * width + c[1] + 1]) + Total(S \ {c})
  IN FDiv(FromInt(Total(cols \X rows)),
          FromInt(Cardinality(cols) * Cardinality(rows)))

\* f > 127 for a float f = <<m, e>>, on the integers.
Above127(f) ==
  IF f[1] <= 0 THEN FALSE
  ELSE IF f[2] >= 0 THEN TRUE
  ELSE IF 0 - f[2] >= 24 THEN FALSE
  ELSE f[1] > 127 * 2 ^ (0 - f[2])

Binary(f) == \A k \in DOMAIN f : f[k] \in {FromInt(0), FromInt(255)}

\* C11: dialate_operator returns 0 where the centre sample is 0, whatever
\* the neighbours, and the clamped-window average of radius DENOISE_RAD
\* elsewhere; so a cell that is 0 in one mask state of dialate is 0 in
\* every later one.
C11_WrittenCells ==
  (kernel = "dialate" /\ ak_pc # "idle") =>
    \A k \in DOMAIN writers :
      writers[k] # <<>> =>
        out_pixels[k] =
          IF input_at_call[k] = FZero THEN FZero
          ELSE WindowMean(input_at_call, (k - 1) % width, (k - 1) \div width,
                          DENOISE_RAD)

C11_ZeroStaysZero ==
  \A k \in DOMAIN MaskState :
    MaskState[k] = FZero => MaskState'[k] = FZero

C11_BackgroundNeverGrows ==
  /\ []C11_WrittenCells
  /\ [][C11_ZeroStaysZero]_vars

\* The single background cell of a white 3x2 mask is still background in
\* the mask dialate returns, all other cells being foreground.
C11_Witness ==
  /\ pc = "done"
  /\ width = 3
  /\ height = 2
  /\ hw = 2
  /\ output_image = <<255, 255, 0, 255, 255, 255>>
  /\ pass = DENOISE_COUNT

\* C12: dialate makes exactly DENOISE_COUNT transitions, each a pass of
\* dialate_operator whose output is quantized (above 127 to 255, else to
\* 0); after each transition, and in the bytes returned, every sample is 0
\* or 255.
C12_Counts ==
  /\ pc = "dialate_loop" =>
       /\ i < DENOISE_COUNT
       /\ pass = IF ak_pc = "idle" THEN i ELSE i + 1
       /\ i >= 1 => Binary(pixels)
  /\ pc = "dialate_end" => (pass = DENOISE_COUNT /\ Binary(pixels))
  /\ pc = "done" =>
       /\ pass = DENOISE_COUNT
       /\ \A k \in DOMAIN output_image : output_image[k] \in {0, 255}
       /\ Len(output_image) = width * height

C12_Transition ==
  (ApplyKernelReturn /\ pc = "dialate_loop" /\ pc' # "crashed") =>
    /\ kernel = "dialate"
    /\ pixels' = [k \in DOMAIN out_pixels |->
                    IF Above127(out_pixels[k]) THEN FromInt(255)
                    ELSE FromInt(0)]
    /\ pass' = pass

C12_TransitionsAreBinary ==
  /\ []C12_Counts
  /\ [][C12_Transition]_vars

\* The first transition on the 3x2 ramp mask has been made by two workers:
\* the pass gave samples that are neither 0 nor 255 and all became 0.
C12_Witness ==
  /\ pc = "dialate_loop"
  /\ i = 1
  /\ ak_pc = "idle"
  /\ width = 3
  /\ height = 2
  /\ hw = 2
  /\ output_image = <<3, 6, 9, 12, 15, 18>>
  /\ ~Binary(out_pixels)
  /\ pixels = [k \in 1 .. 6 |-> FZero]

\* C13: a mask wider and higher than 2*DENOISE_RAD+1 with a single 255 on
\* 0 is all 0 after the first transition of dialate and stays so, and the
\* mask dialate returns is all 0.
C13_SpeckIsRemoved ==
  (width > 2 * DENOISE_RAD + 1 /\ height > 2 * DENOISE_RAD + 1) =>
    /\ (pc = "dialate_loop" /\ i >= 1) =>
         \A k \in DOMAIN pixels : pixels[k] = FZero
    /\ pc = "dialate_end" => \A k \in DOMAIN pixels : pixels[k] = FZero
    /\ pc = "done" =>
         /\ Len(output_image) = width * height
         /\ \A k \in DOMAIN output_image : output_image[k] = 0

\* dialate has returned the all-zero mask of a 20x20 field whose single
\* foreground sample was in a corner, where the window is smallest.
C13_Witness ==
  /\ pc = "done"
  /\ width = SpeckSide
  /\ height = SpeckSide
  /\ hw = 1
  /\ pass = DENOISE_COUNT
  /\ \A k \in DOMAIN output_image : output_image[k] = 0

\* The first pass over such a field has written the average of the
\* corner's window, 255/100, which the quantization turns into 0.
C13_WitnessFirstPass ==
  /\ pc = "dialate_loop"
  /\ i = 0
  /\ ak_pc = "join"
  /\ width = SpeckSide
  /\ output_image[1] = 255
  /\ out_pixels[1] = FDiv(FromInt(255), FromInt(100))

\* ------------------------------------------------------------------------
\* Properties of process_image

\* The samples as the bytes the histogram loop and the classification loop
\* see them, under the conversion of this build.
BytesOf(mode) == [k \in DOMAIN pixels |-> ToByte(pixels[k], mode)]

\* How often the byte v stands in the field.
CountOf(bytes, v) == Cardinality({k \in DOMAIN bytes : bytes[k] = v})

\* The threshold is a value of 1..50 that no counted value outnumbers.
IsBandMode(bytes, t) ==
  /\ t \in 1 .. 50
  /\ CountOf(bytes, t) >= 1
  /\ \A v \in 1 .. 50 : CountOf(bytes, v) <= CountOf(bytes, t)

\* Each sample is foreground exactly when its byte is within CERTAINTY of
\* the threshold.
IsClassified(bytes, t, mask) ==
  /\ DOMAIN mask = DOMAIN bytes
  /\ \A k \in DOMAIN bytes :
       mask[k] = IF bytes[k] - t < CERTAINTY /\ t - bytes[k] < CERTAINTY
                   THEN 255 ELSE 0

\* C14: the threshold is a value of the band 1..50 whose count among the
\* byte-quantized samples is the highest of all counted values, and every
\* sample is foreground (255) exactly when |byte - threshold| < CERTAINTY,
\* background (0) otherwise.
C14_ModeStrategy ==
  /\ pc = "classify" => IsBandMode(BytesOf(cast), threshold)
  /\ pc = "dialate_begin" =>
       /\ IsBandMode(BytesOf(cast), threshold)
       /\ IsClassified(BytesOf(cast), threshold, output_image)

\* The same for the fields in which some byte lies in 1..50.
C14_ModeOfNonEmptyTable ==
  (\E k \in DOMAIN pixels : ToByte(pixels[k], cast) \in 1 .. 50) =>
    C14_ModeStrategy

\* C19: when the mode is selected the frequency table is not empty, so the
\* threshold is a value of 1..50 that occurs in the field and the end of an
\* empty table is never dereferenced.
C19_FrequencyTableIsNonEmpty ==
  /\ pc = "histogram" =>
       \A mode \in CastModes :
         \E k \in DOMAIN pixels : ToByte(pixels[k], mode) \in 1 .. 50
  /\ pc = "classify" =>
       /\ threshold \in 1 .. 50
       /\ \E k \in DOMAIN pixels : ToByte(pixels[k], cast) = threshold

\* f lies in [0, 255].
InByteRange(f) == f[1] >= 0 /\ ~FLess(FromInt(255), f)

\* C20: every sample that reaches the byte quantization of the histogram
\* loop and of the classification loop lies in [0, 255].
C20_SamplesAreInByteRange ==
  pc \in {"histogram", "classify"} =>
    \A k \in DOMAIN pixels : InByteRange(pixels[k])

\* The run is over: main has returned or the process has been terminated.
RunOver == pc \in {"exit", "terminated"}

\* The files process_image has returned from: the loop counter of main is
\* past them.
Processed == {j \in DOMAIN argv : j < file_idx}

\* C15: a file that cannot be decoded aborts the processing of that file
\* only: every later file of the command line is still processed, and the
\* files processed before keep their outputs.
C15_LaterFilesAreProcessed ==
  RunOver =>
    \A k \in DOMAIN argv : \A j \in DOMAIN argv :
      (argv[k] = "bad" /\ k < j /\ argv[j] = "ok") => j \in Processed

C15_LoadErrorAbortsOneFile ==
  /\ []C15_LaterFilesAreProcessed
  /\ [][outputs \subseteq outputs']_vars

\* C16: with fewer than 3 channels the reduction gives an all-zero field of
\* width*height samples and the pipeline run on it ends normally.  Stated
\* for the runs with at least one worker, in which no pass can stop on the
\* worker count.
C16_FewChannelsRunsToTheEnd ==
  (channels < 3 /\ hw >= 1) =>
    /\ pc = "blur_first" /\ pass = 0 =>
         pixels = [k \in 1 .. width * height |-> FZero]
    /\ pc # "crashed"

====
